---- MODULE Spec2Model ----
(***************************************************************************)
(* Model of the video pipeline backend: the in-memory task table           *)
(* (main.py), the background pipeline process_download (main.py), the      *)
(* transcode coordinator (convert.py), the validation gate (utils.py),     *)
(* the publish step (cloudinary_uploader.py) and the HTTP handlers         *)
(* download_video / get_task_status (main.py).                             *)
(*                                                                         *)
(* One action models one block of code between two awaits of a coroutine.  *)
(* An await of an external engine that never returns leaves the coroutine  *)
(* suspended for ever: pc = "hung".                                        *)
(***************************************************************************)
EXTENDS Integers, Sequences, FiniteSets, TLC

\* ------------------------------------------------------------------ bounds
\* Number of task ids the model can hand out (uuid4 values).
MaxJobs == 2

JobIds == 1..MaxJobs

\* ------------------------------------------------------------- constants
\* utils.py: "Check file size (must be > 1KB)": rejected when size < 1024.
MinFileSize == 1024
\* cloudinary_uploader.py: 100 * 1024 * 1024, the 100MB upload limit.
MaxUploadSize == 104857600

\* Python's None for the optional fields of a task entry.
None == "None"

\* ------------------------------------------------------------ file system
\* A local file is abstracted by the facts the code reads from it:
\* its size, whether its first 2KB carry an HTML / error signature, whether
\* ffprobe finds a video stream, and the duration ffprobe reports.
Contents ==
  [ good   |-> [size |-> 2048,              html |-> FALSE, video |-> TRUE,  duration |-> 1],
    tiny   |-> [size |-> 512,               html |-> FALSE, video |-> TRUE,  duration |-> 1],
    empty  |-> [size |-> 0,                 html |-> FALSE, video |-> FALSE, duration |-> 0],
    huge   |-> [size |-> MaxUploadSize + 1, html |-> FALSE, video |-> TRUE,  duration |-> 1],
    html   |-> [size |-> 4096,              html |-> TRUE,  video |-> FALSE, duration |-> 0],
    audio  |-> [size |-> 2048,              html |-> FALSE, video |-> FALSE, duration |-> 1],
    nodur  |-> [size |-> 2048,              html |-> FALSE, video |-> TRUE,  duration |-> 0] ]

\* The content of a path that does not exist.
NoFile == "absent"

\* temp/<task_id>_temp.<ext> : the file the acquisition stage hands over.
VideoPath(j) == <<"temp", j>>
\* converted/<name>_converted.mp4 : convert.py line 20.
ConvertedPath(j) == <<"converted", j>>

Paths == {VideoPath(j) : j \in JobIds} \cup {ConvertedPath(j) : j \in JobIds}

\* Files the fetch engine can deliver and the acquisition stage accepts.
AcquiredContents == {"good", "tiny"}
\* How the acquisition stage ends: with a local file, with an error result
\* that leaves no file of the job behind, or by raising.
DownloadOutcomes == {"file", "error", "raise"}
\* What one run of the encode engine can leave at the output path.
TierOutputs == {"good", "empty", "huge"}

VARIABLES
  tasks,        \* main.py `tasks`: task_id -> [status, progress, error, cloudinary_url]
  pc,           \* per task id: position of its process_download coroutine
  files,        \* local file system: path -> content name, or NoFile
  log_data,     \* per run: log_data["steps"], the step names in order
  logs,         \* logs/<task_id>.json as last written by save_task_log
  uploadCalls,  \* per job: number of invocations of uploader.upload
  released,     \* per path: number of times cleanup was executed on it
  created,      \* paths a pipeline run created
  fault,        \* per job: the stage failure or exception of its run
  seen,         \* per job: first and latest get_task_status response since it was terminal
  resp,         \* the HTTP response the last step returned, if it served a request
  hungAt,       \* per job: the position at which its run stopped returning
  gate,         \* a file handed to a validation, and the verdict
  failed_attempts, \* VideoDownloader.failed_attempts, shared by all downloads
  resets,       \* how often a successful download has reset failed_attempts
  attempts,     \* how many download attempts have been started
  acq,          \* per download_video call: its position and its attempts
  loop,         \* the call whose blocking sleep occupies the event loop thread, or 0
  now,          \* time.time(), in seconds
  last_attempt_time, \* VideoDownloader.last_attempt_time, in seconds
  cookies,      \* cookies.txt on disk, and the download_video calls that were given it
  ext,          \* a VideoDownloader.extract_info call: its position and its attempts
  up            \* a CloudinaryUploader.upload call: its file, the service, its result

\* The state of the task table, the pipeline runs and their files.
pipeVars == <<tasks, pc, files, log_data, logs, uploadCalls, released, created, fault, seen>>

\* The state of the validations and of VideoDownloader.download_video.
auxVars == <<cookies, ext, up>>

toolVars ==
  <<gate, failed_attempts, resets, attempts, acq, loop, now, last_attempt_time, auxVars>>

vars == <<pipeVars, resp, hungAt, toolVars>>

Terminal == {"completed", "failed"}


\* ------------------------------------------------------- validation gate
\* What the ffprobe subprocess of the gate can do when it returns:
\* "ok": exit code 0 and JSON describing the file; "error": a non-zero exit
\* code, unparsable output, or the subprocess could not be started.
ProbeOutcomes == {"ok", "error"}

\* utils.py validate_file_with_ffprobe: TRUE iff the gate runs the probe,
\* i.e. the file exists, is at least MinFileSize bytes and its header shows
\* no HTML / error signature.
GateRunsProbe(fs, path) ==
  /\ fs[path] # NoFile
  /\ Contents[fs[path]].size >= MinFileSize
  /\ ~Contents[fs[path]].html

\* What a validation finds out about a file: whether it exists, its size,
\* whether its first 2 KB can be read and show an HTML / error signature,
\* how the ffprobe run ends ("error": exit code not 0 or output that does not
\* parse; "raises": the process cannot be run), and what ffprobe reports.
KindFacts(c, probe) ==
  IF c = NoFile
  THEN [exists |-> FALSE, size |-> 0, header |-> "read", html |-> FALSE,
        probe |-> probe, video |-> FALSE, duration |-> 0, format |-> FALSE]
  ELSE [exists |-> TRUE, size |-> Contents[c].size, header |-> "read",
        html |-> Contents[c].html, probe |-> probe,
        video |-> Contents[c].video,
        duration |-> Contents[c].duration, format |-> TRUE]

\* The facts about the file at path.
FileFacts(fs, path, probe) == KindFacts(fs[path], probe)

\* utils.py validate_file_with_ffprobe lines 71-135 on the facts f, for a
\* probe that returns. An exception while the header is read is swallowed
\* (lines 83-93) and the validation goes on with the probe.
validate_file(f) ==
  IF ~f.exists THEN FALSE
  ELSE IF f.size < MinFileSize THEN FALSE
  ELSE IF f.header = "read" /\ f.html THEN FALSE
  ELSE IF f.probe # "ok" THEN FALSE
  ELSE IF ~f.video THEN FALSE
  ELSE IF f.duration <= 0 THEN FALSE
  ELSE TRUE

\* downloader.py validate_video_file lines 459-501 on the facts f: the
\* ffprobe run, a video stream and a format name; size, header and
\* duration are not looked at.
validate_video_file(f) ==
  IF f.probe # "ok" THEN FALSE
  ELSE IF ~f.video THEN FALSE
  ELSE IF ~f.format THEN FALSE
  ELSE TRUE

\* utils.py validate_file_with_ffprobe on the file at path, for a probe
\* that returns.
validate_file_with_ffprobe(fs, path, probe) ==
  validate_file(FileFacts(fs, path, probe))

\* ------------------------------------------------------------- task table
\* main.py download_video lines 179-184: the entry of a new task.
NewTask ==
  [status |-> "pending", progress |-> "Initializing...",
   error |-> None, cloudinary_url |-> None]

\* A bug variant of SetFailed: the error is recorded, the status is not.
SetFailedNoStatus(t, err) == [t EXCEPT !.error = err]

\* main.py lines 79-80, 104-105, 129-130, 154-155.
SetFailed(t, err) == [t EXCEPT !.status = "failed", !.error = err]

\* main.py lines 140-142.
SetCompleted(t, url) ==
  [t EXCEPT !.status = "completed", !.cloudinary_url = url,
            !.progress = "Completed successfully!"]

\* main.py get_task_status: the response for a task id.
get_task_status(j) ==
  IF j \notin DOMAIN tasks
  THEN [code |-> 404, detail |-> "Task not found"]
  ELSE [code |-> 200, task_id |-> j,
        status |-> tasks[j].status, progress |-> tasks[j].progress,
        error |-> tasks[j].error, cloudinary_url |-> tasks[j].cloudinary_url]

\* A bug variant of cleanup_temp_files: only the first path is removed.
cleanup_first_only(fs, paths) ==
  [p \in DOMAIN fs |-> IF Len(paths) > 0 /\ p = paths[1] THEN NoFile ELSE fs[p]]

\* utils.py cleanup_temp_files: every listed path that exists is removed
\* (os.remove of a file the run itself wrote is taken to succeed).
cleanup_temp_files(fs, paths) ==
  [p \in DOMAIN fs |-> IF \E i \in 1..Len(paths) : paths[i] = p THEN NoFile ELSE fs[p]]

\* A bug variant of CatchTarget: no handler, the exception leaves the run.
CatchNothing == "crashed"

\* main.py lines 70 and 153: an exception raised inside the try block of
\* process_download continues in its `except Exception` handler.
CatchTarget == "except"


\* Construction: main.py line 38 (`tasks = {}`), no run started, the
\* directories of setup_directories empty.
PipeInit ==
  /\ tasks = [j \in {} |-> NewTask]
  /\ pc = [j \in JobIds |-> "none"]
  /\ files = [p \in Paths |-> NoFile]
  /\ log_data = [j \in JobIds |-> <<>>]
  /\ logs = [j \in JobIds |-> <<>>]
  /\ uploadCalls = [j \in JobIds |-> 0]
  /\ released = [p \in Paths |-> 0]
  /\ created = {}
  /\ fault = [j \in JobIds |-> "none"]
  /\ seen = [j \in JobIds |-> <<>>]

\* No request served yet.
NoResponse == [op |-> "none", id |-> 0, body |-> [code |-> 0]]

\* No validation asked for.
NoGate == [by |-> "none", verdict |-> "none"]

\* The two download_video calls followed.
AcqJobs == {1, 2}

\* No cookies.txt was uploaded and no call was given one.
NoCookies == [file |-> FALSE, used |-> {}]

\* An extract_info call not yet made.
NoExtract == [pc |-> "idle", retry_count |-> 0, hist |-> <<>>, error |-> None]

\* No upload call under observation.
NoUpload == [by |-> "none"]

AuxInit ==
  /\ cookies = NoCookies
  /\ ext = NoExtract
  /\ up = NoUpload

\* A download_video call not yet made: no attempt begun, none ended, and
\* no failed attempt counted since the last success.
NoCall ==
  [pc |-> "idle", retry_count |-> 0, tried |-> <<>>, hist |-> <<>>, since |-> 0,
   error |-> None]

\* downloader.py lines 25-26 and a download_video call not yet made.
ToolInit ==
  /\ gate = NoGate
  /\ failed_attempts = 0
  /\ resets = 0
  /\ attempts = 0
  /\ acq = [j \in AcqJobs |-> NoCall]
  /\ loop = 0
  /\ now = 0
  /\ last_attempt_time = 0
  /\ AuxInit

Init ==
  /\ PipeInit
  /\ resp = NoResponse
  /\ hungAt = [j \in JobIds |-> "none"]
  /\ ToolInit

\* A bug variant of Submit: the handler runs the start of the pipeline
\* itself before it returns.
SubmitRunsInline(j) ==
  /\ j \notin DOMAIN tasks
  /\ tasks' = [x \in DOMAIN tasks \cup {j} |->
                 IF x = j THEN [NewTask EXCEPT !.status = "downloading",
                                               !.progress = "Connecting to YouTube..."]
                 ELSE tasks[x]]
  /\ pc' = [pc EXCEPT ![j] = "start"]
  /\ UNCHANGED <<files, log_data, logs, uploadCalls, released, created, fault, seen>>

\* --------------------------------------------------------- HTTP handlers
\* main.py download_video (POST /api/download): a fresh uuid4 task id, the
\* new entry, and the background task queued; no pipeline stage runs here.
Submit(j) ==
  /\ j \notin DOMAIN tasks
  /\ tasks' = [x \in DOMAIN tasks \cup {j} |-> IF x = j THEN NewTask ELSE tasks[x]]
  /\ pc' = [pc EXCEPT ![j] = "start"]
  /\ UNCHANGED <<files, log_data, logs, uploadCalls, released, created, fault, seen>>

\* main.py get_task_status (GET /api/status/{task_id}): reads the table and
\* returns the response. `seen` keeps, for a job polled while terminal, the
\* first such response and the latest one.
GetStatus(j) ==
  /\ seen' = [seen EXCEPT ![j] =
                IF j \in DOMAIN tasks /\ tasks[j].status \in Terminal
                THEN IF Len(@) = 0 THEN <<get_task_status(j)>>
                     ELSE <<@[1], get_task_status(j)>>
                ELSE @]
  /\ UNCHANGED <<tasks, pc, files, log_data, logs, uploadCalls, released, created, fault>>

\* ------------------------------------------------------ process_download
\* A bug variant of StartRun: the "downloading" status write is missing.
StartRunNoStatus(j) ==
  /\ pc[j] = "start"
  /\ tasks' = [tasks EXCEPT ![j].progress = "Connecting to YouTube..."]
  /\ log_data' = [log_data EXCEPT ![j] = <<"download_start">>]
  /\ pc' = [pc EXCEPT ![j] = "downloading"]
  /\ UNCHANGED <<files, logs, uploadCalls, released, created, fault, seen>>

\* main.py lines 62-77: the run starts, writes status "downloading" and
\* awaits downloader.download.
StartRun(j) ==
  /\ pc[j] = "start"
  /\ tasks' = [tasks EXCEPT ![j].status = "downloading",
                            ![j].progress = "Connecting to YouTube..."]
  /\ log_data' = [log_data EXCEPT ![j] = <<"download_start">>]
  /\ pc' = [pc EXCEPT ![j] = "downloading"]
  /\ UNCHANGED <<files, logs, uploadCalls, released, created, fault, seen>>

\* main.py lines 78-87, 103-112, 128-137: a stage returned success = False.
\* The task is marked failed with the stage's error, the step is logged,
\* the log saved, and `return` leaves the try block for `finally`.
StageFailed(j, step, err) ==
  /\ tasks' = [tasks EXCEPT ![j] = SetFailed(@, err)]
  /\ log_data' = [log_data EXCEPT ![j] = Append(@, step)]
  /\ logs' = [logs EXCEPT ![j] = Append(log_data[j], step)]
  /\ fault' = [fault EXCEPT ![j] = step]
  /\ pc' = [pc EXCEPT ![j] = "finally"]

\* The acquisition stage as main.py calls it, `await downloader.download(url,
\* cookies)`: it returns {"success": True, "file_path": ...} with the file on
\* disk, or {"success": False, "error": ...} with no file left, or raises.
\* On success main.py lines 89-102 log the step, write status "converting"
\* and await converter.convert.
DownloadReturn(j) ==
  /\ pc[j] = "downloading"
  /\ \/ \E c \in AcquiredContents :
          /\ "file" \in DownloadOutcomes
          /\ files' = [files EXCEPT ![VideoPath(j)] = c]
          /\ created' = created \cup {VideoPath(j)}
          /\ tasks' = [tasks EXCEPT ![j].status = "converting",
                                    ![j].progress = "Converting video..."]
          /\ log_data' = [log_data EXCEPT ![j] = @ \o <<"download_success", "convert_start">>]
          /\ pc' = [pc EXCEPT ![j] = "convert"]
          /\ UNCHANGED <<logs, uploadCalls, released, fault, seen>>
     \/ /\ "error" \in DownloadOutcomes
        /\ StageFailed(j, "download_failed", "acquisition error")
        /\ UNCHANGED <<files, uploadCalls, released, created, seen>>
     \/ /\ "raise" \in DownloadOutcomes
        /\ pc' = [pc EXCEPT ![j] = CatchTarget]
        /\ fault' = [fault EXCEPT ![j] = "download_raised"]
        /\ UNCHANGED <<tasks, files, log_data, logs, uploadCalls, released, created, seen>>


\* ------------------------------------------------------ VideoConverter
\* What one run of the encode engine (ffmpeg) can do when it returns: an
\* exit code, and what it leaves at the output path ("keep": it wrote
\* nothing, the path is as it was; ffmpeg -y overwrites otherwise).
EngineOutcomes == [rc : {0, 1}, out : {"keep"} \cup TierOutputs]

\* A bug variant of AfterEngine: the engine consumes its input, the
\* acquired file of the same job is gone when the engine returns.
AfterEngineConsumesInput(fs, path, eng) ==
  [p \in DOMAIN fs |->
     IF p = <<"temp", path[2]>> THEN NoFile
     ELSE IF p = path /\ eng.out # "keep" THEN eng.out ELSE fs[p]]

\* The output path after an engine run.
AfterEngine(fs, path, eng) ==
  IF eng.out = "keep" THEN fs ELSE [fs EXCEPT ![path] = eng.out]

\* A bug variant of TierSucceeded: the engine's exit code and the existence
\* of the output are trusted, the gate is not asked.
TierSucceededNoGate(fs, path, eng, probe) ==
  /\ eng.rc = 0
  /\ fs[path] # NoFile

\* convert.py lines 64-67, 95-98, 122-125: a tier succeeded iff the engine
\* exited 0, the output exists and the gate accepts it.
TierSucceeded(fs, path, eng, probe) ==
  /\ eng.rc = 0
  /\ fs[path] # NoFile
  /\ validate_file_with_ffprobe(fs, path, probe)

\* main.py lines 114-127: convert returned success; the step is logged,
\* status "uploading" written and uploader.upload awaited.
ConvertSucceeded(j) ==
  /\ tasks' = [tasks EXCEPT ![j].status = "uploading",
                            ![j].progress = "Uploading to Cloudinary..."]
  /\ log_data' = [log_data EXCEPT ![j] = @ \o <<"convert_success", "upload_start">>]
  /\ uploadCalls' = [uploadCalls EXCEPT ![j] = @ + 1]
  /\ pc' = [pc EXCEPT ![j] = "uploading"]
  /\ UNCHANGED <<logs, fault>>

\* A bug variant of ConvertFailed: the failure is recorded but the `return`
\* is missing, so the run goes on to the publish stage.
ConvertFailedNoReturn(j, err) ==
  /\ tasks' = [tasks EXCEPT ![j] = SetFailed(@, err)]
  /\ log_data' = [log_data EXCEPT ![j] = Append(@, "convert_failed")]
  /\ logs' = [logs EXCEPT ![j] = Append(log_data[j], "convert_failed")]
  /\ fault' = [fault EXCEPT ![j] = "convert_failed"]
  /\ uploadCalls' = [uploadCalls EXCEPT ![j] = @ + 1]
  /\ pc' = [pc EXCEPT ![j] = "uploading"]

\* main.py lines 103-112: convert returned success = False.
ConvertFailed(j, err) ==
  /\ StageFailed(j, "convert_failed", err)
  /\ UNCHANGED uploadCalls

\* A bug variant of ConvertValidate: the verdict on the input is ignored
\* and the first tier runs in any case.
ConvertValidateIgnored(j) ==
  /\ pc[j] = "convert"
  /\ pc' = [pc EXCEPT ![j] = "hevc"]
  /\ UNCHANGED <<tasks, log_data, logs, uploadCalls, fault>>
  /\ UNCHANGED <<files, released, created, seen>>

\* convert.py lines 13-16: convert validates its input first. The gate's
\* probe is awaited without a timeout (utils.py lines 101-107).
ConvertValidate(j) ==
  /\ pc[j] = "convert"
  /\ \/ /\ GateRunsProbe(files, VideoPath(j))
        /\ pc' = [pc EXCEPT ![j] = "hung"]
        /\ UNCHANGED <<tasks, log_data, logs, uploadCalls, fault>>
     \/ \E probe \in ProbeOutcomes :
          IF validate_file_with_ffprobe(files, VideoPath(j), probe)
          THEN /\ pc' = [pc EXCEPT ![j] = "hevc"]
               /\ UNCHANGED <<tasks, log_data, logs, uploadCalls, fault>>
          ELSE ConvertFailed(j, "Input file is not a valid video")
  /\ UNCHANGED <<files, released, created, seen>>

\* convert.py _convert_hevc / _convert_h264 / _remux, and the use convert
\* makes of the result (lines 22-37): the engine runs on the one output
\* path; on success convert returns it, otherwise the next tier runs, and
\* after the last tier convert returns "All conversion methods failed".
\* process.communicate() and the gate's probe are awaited without a timeout.
Tier(j, here, next) ==
  /\ pc[j] = here
  /\ \E eng \in EngineOutcomes :
       LET fs == AfterEngine(files, ConvertedPath(j), eng) IN
       /\ files' = fs
       /\ created' = IF fs[ConvertedPath(j)] # NoFile
                     THEN created \cup {ConvertedPath(j)} ELSE created
       /\ \/ /\ pc' = [pc EXCEPT ![j] = "hung"]
             /\ UNCHANGED <<tasks, log_data, logs, uploadCalls, fault>>
          \/ \E probe \in ProbeOutcomes :
               IF TierSucceeded(fs, ConvertedPath(j), eng, probe)
               THEN ConvertSucceeded(j)
               ELSE IF next = "none"
                    THEN ConvertFailed(j, "All conversion methods failed")
                    ELSE /\ pc' = [pc EXCEPT ![j] = next]
                         /\ UNCHANGED <<tasks, log_data, logs, uploadCalls, fault>>
  /\ UNCHANGED <<released, seen>>

\* A bug variant of convert_hevc: a failed HEVC tier ends the conversion
\* with "All conversion methods failed" and no fallback is tried.
convert_hevc_gives_up(j) == Tier(j, "hevc", "none")
\* convert.py lines 22-25 and _convert_hevc.
convert_hevc(j) == Tier(j, "hevc", "h264")
\* A bug variant of convert_h264: after H.264 fails, HEVC is tried again.
convert_h264_then_hevc(j) == Tier(j, "h264", "hevc")
\* convert.py lines 27-30 and _convert_h264.
convert_h264(j) == Tier(j, "h264", "remux")
\* convert.py lines 32-37 and _remux.
remux(j) == Tier(j, "remux", "none")

\* ---------------------------------------------------- CloudinaryUploader
\* What the upload service call can do when it returns.
ServiceOutcomes == {"url", "nourl", "exception"}

\* The secure_url the service returns for a job's file.
SecureUrl(j) == "https://res.cloudinary.com/video.mp4"

\* A bug variant of UploadFailed: the publish call is tried again.
UploadFailedRetry(j, err) ==
  /\ uploadCalls' = [uploadCalls EXCEPT ![j] = @ + 1]
  /\ UNCHANGED <<tasks, pc, log_data, logs, fault>>

\* main.py lines 128-137: upload returned success = False.
UploadFailed(j, err) ==
  /\ StageFailed(j, "upload_failed", err)
  /\ UNCHANGED uploadCalls

\* cloudinary_uploader.py upload, then main.py lines 128-148. A file over
\* the limit is refused before the service is called; a returned URL is
\* success; a missing URL or an exception is a failure result. The service
\* call (asyncio.to_thread) is awaited without a timeout.
UploadReturn(j) ==
  /\ pc[j] = "uploading"
  /\ IF files[ConvertedPath(j)] = NoFile
     THEN UploadFailed(j, "Upload failed: no such file")
     ELSE IF Contents[files[ConvertedPath(j)]].size > MaxUploadSize
     THEN UploadFailed(j, "File too large (max 100MB)")
     ELSE \/ /\ pc' = [pc EXCEPT ![j] = "hung"]
             /\ UNCHANGED <<tasks, log_data, logs, uploadCalls, fault>>
          \/ /\ tasks' = [tasks EXCEPT ![j] = SetCompleted(@, SecureUrl(j))]
             /\ log_data' = [log_data EXCEPT ![j] = Append(@, "upload_success")]
             /\ pc' = [pc EXCEPT ![j] = "cleanup"]
             /\ UNCHANGED <<logs, uploadCalls, fault>>
          \/ UploadFailed(j, "Failed to get upload URL")
          \/ UploadFailed(j, "Upload failed: service error")
  /\ UNCHANGED <<files, released, created, seen>>

\* --------------------------------------------------- end of the pipeline
\* The paths main.py line 151 hands to cleanup_temp_files.
RunPaths(j) == <<VideoPath(j), ConvertedPath(j)>>

\* A bug variant of Cleanup: a failing removal raises out of the cleanup.
CleanupRaises(j) ==
  /\ pc[j] = "cleanup"
  /\ pc' = [pc EXCEPT ![j] = CatchTarget]
  /\ UNCHANGED <<tasks, files, log_data, logs, uploadCalls, released, created, fault, seen>>

\* A bug variant of Cleanup: the progress text is rewritten after the
\* files are removed.
CleanupProgress(j) ==
  /\ pc[j] = "cleanup"
  /\ files' = cleanup_temp_files(files, RunPaths(j))
  /\ tasks' = [tasks EXCEPT ![j].progress = "Cleaned up"]
  /\ pc' = [pc EXCEPT ![j] = "finally"]
  /\ UNCHANGED <<log_data, logs, uploadCalls, released, created, fault, seen>>

\* main.py lines 150-151: after the Completed write, both local files are
\* removed; cleanup_temp_files never raises.
Cleanup(j) ==
  /\ pc[j] = "cleanup"
  /\ files' = cleanup_temp_files(files, RunPaths(j))
  /\ released' = [p \in Paths |->
                    IF (\E i \in 1..Len(RunPaths(j)) : RunPaths(j)[i] = p) /\ files[p] # NoFile
                    THEN released[p] + 1 ELSE released[p]]
  /\ pc' = [pc EXCEPT ![j] = "finally"]
  /\ UNCHANGED <<tasks, log_data, logs, uploadCalls, created, fault, seen>>

\* A bug variant of ExceptHandler: the handler marks every entry of the job
\* table failed, not only the entry of its own run.
ExceptHandlerAllTasks(j) ==
  /\ pc[j] = "except"
  /\ tasks' = [k \in DOMAIN tasks |-> SetFailed(tasks[k], "Unexpected error: fault")]
  /\ log_data' = [log_data EXCEPT ![j] = Append(@, "unexpected_error")]
  /\ pc' = [pc EXCEPT ![j] = "finally"]
  /\ UNCHANGED <<files, logs, uploadCalls, released, created, fault, seen>>

\* main.py lines 153-161: the handler of an unexpected exception.
ExceptHandler(j) ==
  /\ pc[j] = "except"
  /\ tasks' = [tasks EXCEPT ![j] = SetFailed(@, "Unexpected error: fault")]
  /\ log_data' = [log_data EXCEPT ![j] = Append(@, "unexpected_error")]
  /\ pc' = [pc EXCEPT ![j] = "finally"]
  /\ UNCHANGED <<files, logs, uploadCalls, released, created, fault, seen>>

\* A bug variant of Finally: the run ends without saving the log.
FinallyNoSave(j) ==
  /\ pc[j] = "finally"
  /\ pc' = [pc EXCEPT ![j] = "done"]
  /\ UNCHANGED <<tasks, files, log_data, logs, uploadCalls, released, created, fault, seen>>

\* main.py lines 163-164: `finally` saves the log and the run ends
\* (save_task_log, lines 51-58, rewrites logs/<task_id>.json with the whole
\* log; the write of the run's own log file is taken to succeed).
Finally(j) ==
  /\ pc[j] = "finally"
  /\ logs' = [logs EXCEPT ![j] = log_data[j]]
  /\ pc' = [pc EXCEPT ![j] = "done"]
  /\ UNCHANGED <<tasks, files, log_data, uploadCalls, released, created, fault, seen>>

\* A step of the pipeline specification: the request log and the hang
\* record are not kept.
Pipe(A) == A /\ UNCHANGED <<resp, hungAt, toolVars>>

\* One step of the pipeline run of job j.
Run(j) ==
  \/ Pipe(StartRun(j))
  \/ Pipe(DownloadReturn(j))
  \/ Pipe(ConvertValidate(j))
  \/ Pipe(convert_hevc(j))
  \/ Pipe(convert_h264(j))
  \/ Pipe(remux(j))
  \/ Pipe(UploadReturn(j))
  \/ Pipe(Cleanup(j))
  \/ Pipe(ExceptHandler(j))
  \/ Pipe(Finally(j))

\* Submissions and the pipeline runs they start.
Next ==
  \/ \E j \in JobIds : Pipe(Submit(j))
  \/ \E j \in JobIds : Run(j)

Spec == Init /\ [][Next]_vars

\* The identifiers whose status requests are followed. get_task_status only
\* reads, and identifiers are interchangeable: the requests for one of them
\* stand for the requests for any.
PolledJobs == {1}

\* Submissions, pipeline runs and status polls of terminal jobs compared.
PollNext ==
  \/ \E j \in JobIds : Pipe(Submit(j))
  \/ \E j \in PolledJobs : Pipe(GetStatus(j))
  \/ \E j \in JobIds : Run(j)

PollSpec == Init /\ [][PollNext]_vars

\* The event loop runs every coroutine that is ready: a run whose awaited
\* call has returned is eventually resumed.
FairSpec == Spec /\ \A j \in JobIds : WF_vars(Run(j))

\* ------------------------------------------------- one run, hang recorded
\* A step of the run of job j that also records, when the run stops
\* returning, the position it stopped at.
Conv(j, A) ==
  /\ A
  /\ hungAt' = [hungAt EXCEPT ![j] = IF pc'[j] = "hung" /\ pc[j] # "hung" THEN pc[j] ELSE @]
  /\ UNCHANGED <<resp, toolVars>>

\* One step of the run of job j, hang recorded.
ConvRun(j) ==
  \/ Conv(j, StartRun(j))
  \/ Conv(j, DownloadReturn(j))
  \/ Conv(j, ConvertValidate(j))
  \/ Conv(j, convert_hevc(j))
  \/ Conv(j, convert_h264(j))
  \/ Conv(j, remux(j))
  \/ Conv(j, UploadReturn(j))
  \/ Conv(j, Cleanup(j))
  \/ Conv(j, ExceptHandler(j))
  \/ Conv(j, Finally(j))

\* The first submitted job alone: its run from submission to its end.
ConvNext ==
  \/ Conv(1, Submit(1))
  \/ Conv(1, GetStatus(1))
  \/ ConvRun(1)

ConvSpec == Init /\ [][ConvNext]_vars

\* The event loop resumes the run whenever its awaited call has returned.
ConvFairSpec == ConvSpec /\ WF_vars(ConvRun(1))


\* ------------------------------------------------ requests and responses
\* main.py lines 176-189: the response of POST /api/download.
SubmitResponse(j) == [code |-> 200, task_id |-> j, status |-> "pending"]

\* POST /api/download, response recorded.
ApiSubmit(j) ==
  /\ Submit(j)
  /\ resp' = [op |-> "submit", id |-> j, body |-> SubmitResponse(j)]
  /\ UNCHANGED <<hungAt, toolVars>>

\* A bug variant of ApiGetStatus: an unknown identifier gets an entry
\* (tasks.setdefault) and its status is returned.
ApiGetStatusCreates(j) ==
  /\ tasks' = [x \in DOMAIN tasks \cup {j} |-> IF x = j /\ j \notin DOMAIN tasks
                                                 THEN NewTask ELSE tasks[x]]
  /\ resp' = [op |-> "get_status", id |-> j,
              body |-> [code |-> 200, task_id |-> j,
                        status |-> tasks'[j].status, progress |-> tasks'[j].progress,
                        error |-> tasks'[j].error,
                        cloudinary_url |-> tasks'[j].cloudinary_url]]
  /\ UNCHANGED <<pc, files, log_data, logs, uploadCalls, released, created, fault, seen, hungAt, toolVars>>

\* GET /api/status/{task_id}, response recorded.
ApiGetStatus(j) ==
  /\ resp' = [op |-> "get_status", id |-> j, body |-> get_task_status(j)]
  /\ UNCHANGED <<pipeVars, hungAt, toolVars>>

\* A step of a pipeline run: it serves no request.
Api(A) == A /\ resp' = NoResponse /\ UNCHANGED <<hungAt, toolVars>>

\* One step of the pipeline run of job j, between two requests.
ApiRun(j) ==
  \/ Api(StartRun(j))
  \/ Api(DownloadReturn(j))
  \/ Api(ConvertValidate(j))
  \/ Api(convert_hevc(j))
  \/ Api(convert_h264(j))
  \/ Api(remux(j))
  \/ Api(UploadReturn(j))
  \/ Api(Cleanup(j))
  \/ Api(ExceptHandler(j))
  \/ Api(Finally(j))

ApiNext ==
  \/ \E j \in JobIds : ApiSubmit(j)
  \/ \E j \in PolledJobs : ApiGetStatus(j)
  \/ \E j \in JobIds : ApiRun(j)

ApiSpec == Init /\ [][ApiNext]_vars


\* ------------------------------------------- identifiers drawn by uuid4
\* main.py lines 176-187 when uuid4 returns an identifier the table already
\* holds: the assignment replaces the entry, no check is made. Taken here
\* once the run of the earlier job has ended; the run scheduled for the new
\* job is not followed.
SubmitExisting(j) ==
  /\ j \in DOMAIN tasks
  /\ pc[j] = "done"
  /\ tasks' = [x \in DOMAIN tasks \cup {j} |-> IF x = j THEN NewTask ELSE tasks[x]]
  /\ UNCHANGED <<pc, files, log_data, logs, uploadCalls, released, created, fault, seen>>

\* POST /api/download with the identifier uuid4 drew, response recorded.
IdSubmit(j) ==
  /\ Submit(j) \/ SubmitExisting(j)
  /\ resp' = [op |-> "submit", id |-> j, body |-> SubmitResponse(j)]
  /\ UNCHANGED <<hungAt, toolVars>>

IdNext ==
  \/ \E j \in JobIds : IdSubmit(j)
  \/ \E j \in JobIds : ApiRun(j)

IdSpec == Init /\ [][IdNext]_vars


\* ------------------------------------------------------ the validations
\* Files handed to a validation: each of the facts it looks at, sizes
\* around the minimum.
GateFiles ==
  [exists : BOOLEAN, size : {0, MinFileSize - 1, MinFileSize, MinFileSize + 1},
   header : {"read", "raises"}, html : BOOLEAN,
   probe : ProbeOutcomes \cup {"raises"},
   video : BOOLEAN, duration : {0, 1}, format : BOOLEAN]

GateInit ==
  /\ PipeInit
  /\ resp = NoResponse
  /\ hungAt = [j \in JobIds |-> "none"]
  /\ failed_attempts = 0
  /\ resets = 0
  /\ attempts = 0
  /\ acq = [j \in AcqJobs |-> NoCall]
  /\ loop = 0
  /\ now = 0
  /\ last_attempt_time = 0
  /\ AuxInit
  /\ gate \in {[by |-> "asked", verdict |-> "none", f |-> f] : f \in GateFiles}

\* utils.py validate_file_with_ffprobe returns its verdict on the file.
GateUtils ==
  /\ gate.by = "asked"
  /\ gate' = [gate EXCEPT !.by = "validate_file_with_ffprobe",
                          !.verdict = IF validate_file(gate.f) THEN "accepted" ELSE "rejected"]
  /\ UNCHANGED <<pipeVars, resp, hungAt, failed_attempts, resets, attempts, acq>>
  /\ UNCHANGED <<loop, now, last_attempt_time, auxVars>>

\* downloader.py validate_video_file returns its verdict on the file.
GateDownloader ==
  /\ gate.by = "asked"
  /\ gate' = [gate EXCEPT !.by = "validate_video_file",
                          !.verdict = IF validate_video_file(gate.f) THEN "accepted" ELSE "rejected"]
  /\ UNCHANGED <<pipeVars, resp, hungAt, failed_attempts, resets, attempts, acq>>
  /\ UNCHANGED <<loop, now, last_attempt_time, auxVars>>

GateNext == GateUtils \/ GateDownloader

GateSpec == GateInit /\ [][GateNext]_vars

\* -------------------------------------- VideoDownloader.download_video
\* downloader.py line 325.
max_retries == 3

\* A bug variant of base_delay: the delay shrinks with the failures.
base_delay_shrinks(n) == 5 - n * 10

\* downloader.py get_ydl_opts line 134: the spacing from the last failed
\* attempt that the next attempt keeps (it sleeps for the part of it that
\* has not yet passed since last_attempt_time).
base_delay(n) == 5 + n * 10

\* Ways the fetch engine fails: HTTP 429, the bot check, no such format,
\* HTTP 403, HTTP 404, a private video, a removed video, a timeout.
EngineErrors ==
  {"http_429", "bot_check", "format", "http_403", "http_404", "private",
   "removed", "timeout"}

\* downloader.py lines 371-398: the exception _download raises for an
\* engine error on attempt number retry_count + 1.
ErrorMsg(e, retry_count) ==
  CASE e = "http_429" -> "Rate limited"
    [] e = "bot_check" -> "YouTube is blocking automated access."
    [] e = "format" -> IF retry_count < max_retries - 1
                       THEN "Format not available"
                       ELSE "Video format not available."
    [] e = "http_403" -> "Access forbidden."
    [] e = "http_404" -> "Video not found."
    [] e = "private" -> "This is a private video."
    [] e = "removed" -> "Video is unavailable."
    [] OTHER -> "Download failed: timed out"

\* downloader.py line 448: the messages that contain 'rate limited' or
\* 'bot'.
RetriedMessages == {"Rate limited"}

\* What the fetch engine can leave at the output path when it reports
\* success.
EngineFiles == {NoFile, "good", "tiny", "empty", "nodur", "html"}

\* A bug variant of ShouldRetry: the retry count is not looked at.
ShouldRetryAnyCount(n, matches) == matches

\* downloader.py lines 448 and 307: after a failure that brought the retry
\* count to n, the loop waits and continues iff the budget is not used up
\* and the message contains 'rate limited' or 'bot' (matches).
ShouldRetry(n, matches) == n < max_retries /\ matches

\* A bug variant of RemoveTemp: the partial downloads are left on disk.
RemoveTempSkipped(fs, j) == fs

\* downloader.py lines 440-445: the files temp/<task_id>_temp.* are
\* unlinked (the unlink of a file the call itself wrote is taken to
\* succeed).
RemoveTemp(fs, j) == [fs EXCEPT ![VideoPath(j)] = NoFile]

\* A bug variant of AcqFail: the retry count is not incremented, so the
\* budget is never used up by retried failures.
AcqFailNoCount(j, msg, h) ==
  /\ failed_attempts' = failed_attempts + 1
  /\ files' = [files EXCEPT ![VideoPath(j)] = NoFile]
  /\ acq' = [acq EXCEPT ![j].hist = h,
                        ![j].since = @ + 1,
                        ![j].error = IF msg \in RetriedMessages THEN @ ELSE msg,
                        ![j].pc = IF msg \in RetriedMessages THEN "backoff" ELSE "raised"]
  /\ UNCHANGED resets

\* A bug variant of AcqFail: the shared counter is written from the call's
\* own retry count, so the failures of other calls are lost.
AcqFailOwnCount(j, msg, h) ==
  /\ failed_attempts' = acq[j].retry_count + 1
  /\ files' = [files EXCEPT ![VideoPath(j)] = NoFile]
  /\ acq' = [acq EXCEPT ![j].retry_count = @ + 1,
                        ![j].hist = h,
                        ![j].since = @ + 1,
                        ![j].error = IF acq[j].retry_count + 1 < max_retries
                                        /\ msg \in RetriedMessages
                                     THEN @ ELSE msg,
                        ![j].pc = IF acq[j].retry_count + 1 < max_retries
                                     /\ msg \in RetriedMessages
                                  THEN "backoff" ELSE "raised"]
  /\ UNCHANGED resets

\* downloader.py lines 432-455: the except handler of one attempt, with the
\* attempt's outcome h appended to the history. The counter is read and
\* written with no await in between. The time of the failure
\* (last_attempt_time, line 435) is not kept here: get_ydl_opts below
\* is the one reader of it.
AcqFail(j, msg, h) ==
  /\ failed_attempts' = failed_attempts + 1
  /\ files' = RemoveTemp(files, j)
  /\ acq' = [acq EXCEPT ![j].retry_count = @ + 1,
                        ![j].hist = h,
                        ![j].since = @ + 1,
                        ![j].error = IF ShouldRetry(acq[j].retry_count + 1, msg \in RetriedMessages)
                                     THEN @ ELSE msg,
                        ![j].pc = IF ShouldRetry(acq[j].retry_count + 1, msg \in RetriedMessages)
                                  THEN "backoff" ELSE "raised"]
  /\ UNCHANGED resets

\* downloader.py lines 328-407 and 457: the loop condition is tested; an
\* iteration of the retry loop begins, get_ydl_opts computes the delay and
\* _download is handed to the executor; or the loop is left and "Max
\* retries exceeded" raised.
AttemptBegin(j) ==
  /\ acq[j].pc \in {"idle", "backoff"}
  /\ IF acq[j].retry_count < max_retries
     THEN /\ attempts' = attempts + 1
          /\ acq' = [acq EXCEPT ![j].pc = "engine",
                                ![j].tried = Append(@, [seq |-> attempts + 1, epoch |-> resets,
                                                        delay |-> base_delay(failed_attempts)])]
     ELSE /\ acq' = [acq EXCEPT ![j].pc = "raised", ![j].error = "Max retries exceeded"]
          /\ UNCHANGED attempts
  /\ UNCHANGED <<files, failed_attempts, resets>>

\* downloader.py lines 407-424: _download returned or raised.
EngineReturn(j) ==
  /\ acq[j].pc = "engine"
  /\ \/ \E e \in EngineErrors :
          AcqFail(j, ErrorMsg(e, acq[j].retry_count),
                  Append(acq[j].hist, [out |-> e, file |-> NoFile]))
     \/ \E k \in EngineFiles :
          LET h == Append(acq[j].hist, [out |-> "ok", file |-> k]) IN
          IF k = NoFile
          THEN AcqFail(j, "Download completed but no file was created", h)
          ELSE IF Contents[k].size = 0
          THEN AcqFail(j, "Downloaded file is empty", h)
          ELSE /\ files' = [files EXCEPT ![VideoPath(j)] = k]
               /\ acq' = [acq EXCEPT ![j].pc = "validating", ![j].hist = h]
               /\ UNCHANGED <<failed_attempts, resets>>
  /\ UNCHANGED attempts

\* downloader.py lines 426-431: validate_video_file returned.
ValidateReturn(j) ==
  /\ acq[j].pc = "validating"
  /\ \E probe \in ProbeOutcomes :
       IF validate_video_file(FileFacts(files, VideoPath(j), probe))
       THEN /\ failed_attempts' = 0
            /\ resets' = resets + 1
            /\ acq' = [k \in AcqJobs |->
                         [acq[k] EXCEPT !.since = 0,
                                        !.pc = IF k = j THEN "returned" ELSE @]]
            /\ UNCHANGED files
       ELSE AcqFail(j, "Downloaded file is not a valid video file", acq[j].hist)
  /\ UNCHANGED attempts

\* A step of download_video: the task table and the runs are not involved.
Acq(A) ==
  /\ A
  /\ UNCHANGED <<tasks, pc, log_data, logs, uploadCalls, released, created, fault, seen>>
  /\ UNCHANGED <<resp, hungAt, gate, loop, now, last_attempt_time, auxVars>>

AcqNext ==
  \/ \E j \in AcqJobs : Acq(AttemptBegin(j))
  \/ \E j \in AcqJobs : Acq(EngineReturn(j))
  \/ \E j \in AcqJobs : Acq(ValidateReturn(j))

AcqSpec == Init /\ [][AcqNext]_vars

\* The steps of one download_video call.
AcqCall(j) ==
  \/ Acq(AttemptBegin(j))
  \/ Acq(EngineReturn(j))
  \/ Acq(ValidateReturn(j))

\* The sleeps end, and the executor returns the engine's and the probe's
\* result (yt-dlp runs with socket_timeout, downloader.py validate_video_file
\* runs ffprobe with timeout=30), so a call that can step does step.
AcqFairSpec == AcqSpec /\ \A j \in AcqJobs : WF_vars(AcqCall(j))

\* ------------------------------------------ VideoDownloader.extract_info
\* Ways the engine fails to extract: HTTP 429, the bot check, a private
\* video, HTTP 403, HTTP 404, a timeout.
ExtractErrors == {"http_429", "bot_check", "private", "http_403", "http_404", "timeout"}

\* downloader.py lines 268-286: the exception _extract raises for an engine
\* error; the blocked-access message carries the engine's own text.
ExtractMsg(e) ==
  CASE e = "http_429" -> "Rate limited"
    [] e = "bot_check" -> "Video access blocked: Sign in to confirm you are not a bot"
    [] e = "private" -> "Video access blocked: Private video"
    [] e = "http_403" -> "Access forbidden"
    [] e = "http_404" -> "Video not found"
    [] OTHER -> "Could not extract video information: timed out"

\* downloader.py line 307: the messages of _extract that contain 'rate
\* limited' or 'bot'.
ExtractRetriedMessages ==
  {"Rate limited", "Video access blocked: Sign in to confirm you are not a bot"}

\* downloader.py lines 253-290 and 317: the loop condition is tested; an
\* iteration begins and _extract is handed to the executor, or the loop is
\* left and "Max retries exceeded" raised.
ExtractBegin ==
  /\ ext.pc \in {"idle", "backoff"}
  /\ ext' = IF ext.retry_count < max_retries
            THEN [ext EXCEPT !.pc = "engine"]
            ELSE [ext EXCEPT !.pc = "raised", !.error = "Max retries exceeded"]
  /\ UNCHANGED <<failed_attempts, resets>>

\* downloader.py lines 290-315: _extract returned the info, and the failure
\* counter is reset; or it raised, the failure is counted, and the loop
\* waits and continues or re-raises.
ExtractReturn ==
  /\ ext.pc = "engine"
  /\ \/ /\ ext' = [ext EXCEPT !.pc = "returned", !.hist = Append(@, "ok")]
        /\ failed_attempts' = 0
        /\ resets' = resets + 1
     \/ \E e \in ExtractErrors :
          LET retry == ShouldRetry(ext.retry_count + 1,
                                   ExtractMsg(e) \in ExtractRetriedMessages) IN
          /\ ext' = [ext EXCEPT !.retry_count = @ + 1,
                                !.hist = Append(@, e),
                                !.error = IF retry THEN @ ELSE ExtractMsg(e),
                                !.pc = IF retry THEN "backoff" ELSE "raised"]
          /\ failed_attempts' = failed_attempts + 1
          /\ UNCHANGED resets

\* A step of extract_info: neither the pipeline nor the downloads move.
Ext(A) ==
  /\ A
  /\ UNCHANGED <<pipeVars, resp, hungAt, gate, attempts, acq, loop, now, last_attempt_time>>
  /\ UNCHANGED <<cookies, up>>

\* The download_video call followed next to the extract_info call.
RetryJobs == {1}

\* A download_video call and an extract_info call, interleaved.
RetryNext ==
  \/ \E j \in RetryJobs : Acq(AttemptBegin(j))
  \/ \E j \in RetryJobs : Acq(EngineReturn(j))
  \/ \E j \in RetryJobs : Acq(ValidateReturn(j))
  \/ Ext(ExtractBegin)
  \/ Ext(ExtractReturn)

RetrySpec == Init /\ [][RetryNext]_vars

\* ------------------------------------------------------- cookies.txt
\* main.py upload_cookies lines 205-246: a .txt upload that decodes and
\* passes validate_cookies_content is written to cookies.txt (lines
\* 227-228); any other upload is answered with an error and writes nothing.
upload_cookies ==
  /\ \E valid \in BOOLEAN :
       cookies' = [cookies EXCEPT !.file = IF valid THEN TRUE ELSE @]
  /\ UNCHANGED <<pipeVars, resp, hungAt, gate, failed_attempts, resets, attempts, acq>>
  /\ UNCHANGED <<loop, now, last_attempt_time, ext, up>>

\* downloader.py lines 330-332 and get_ydl_opts lines 229-242: an attempt
\* begins; browser cookies are asked for on the first attempt when a
\* browser was detected, otherwise a non-empty cookies.txt is handed to the
\* engine as opts['cookiefile']. Nothing in the call removes the file.
AttemptWithCookies(j) ==
  /\ AttemptBegin(j)
  /\ \E browser \in BOOLEAN :
       cookies' = [cookies EXCEPT !.used =
                     IF cookies.file /\ acq[j].retry_count < max_retries
                        /\ ~(browser /\ acq[j].retry_count = 0)
                     THEN @ \cup {j} ELSE @]
  /\ UNCHANGED <<tasks, pc, log_data, logs, uploadCalls, released, created, fault, seen>>
  /\ UNCHANGED <<resp, hungAt, gate, loop, now, last_attempt_time, ext, up>>

\* A download_video call, with uploads of cookies.txt at any time.
CookieNext ==
  \/ upload_cookies
  \/ \E j \in RetryJobs : AttemptWithCookies(j)
  \/ \E j \in RetryJobs : Acq(EngineReturn(j))
  \/ \E j \in RetryJobs : Acq(ValidateReturn(j))

CookieSpec == Init /\ [][CookieNext]_vars

\* The largest failure count and the longest time since the last failure
\* (seconds) from which get_ydl_opts is called.
MaxFailures == 4
MaxElapsed == 50

\* A bug variant of sleep_time: the wait is the base of 5 seconds whatever
\* the failure count.
sleep_time_flat(k, elapsed) == IF elapsed < 5 THEN 5 - elapsed ELSE 0

\* downloader.py get_ydl_opts lines 131-139: with k failures counted and
\* `elapsed` seconds passed since last_attempt_time, the part of base_delay
\* that is still to be waited.
sleep_time(k, elapsed) ==
  IF elapsed < base_delay(k) THEN base_delay(k) - elapsed ELSE 0

\* get_ydl_opts is called with any failure count, at any time after the
\* last recorded failure (last_attempt_time is 0 when there was none).
DelayInit ==
  /\ PipeInit
  /\ resp = NoResponse
  /\ hungAt = [j \in JobIds |-> "none"]
  /\ gate = NoGate
  /\ resets = 0
  /\ attempts = 0
  /\ acq = [j \in AcqJobs |-> NoCall]
  /\ loop = 0
  /\ failed_attempts \in 0..MaxFailures
  /\ AuxInit
  /\ last_attempt_time \in {0, MaxElapsed}
  /\ now \in last_attempt_time..(last_attempt_time + MaxElapsed)

\* downloader.py lines 131-139 and 332: get_ydl_opts sleeps for sleep_time
\* and returns; the attempt begins.
get_ydl_opts ==
  /\ attempts = 0
  /\ now' = now + sleep_time(failed_attempts, now - last_attempt_time)
  /\ attempts' = attempts + 1
  /\ UNCHANGED <<pipeVars, resp, hungAt, gate, failed_attempts, resets, acq, loop,
                 last_attempt_time, auxVars>>

DelayNext == get_ydl_opts

DelaySpec == DelayInit /\ [][DelayNext]_vars

\* ---------------------------------------------- CloudinaryUploader.upload
\* The files upload can be handed, by existence and size, and what the
\* service does when it is called: it returns a secure_url, an empty one,
\* a result without one, or raises.
UploadFiles ==
  [exists : BOOLEAN,
   size : {0, 1, MinFileSize, MaxUploadSize - 1, MaxUploadSize, MaxUploadSize + 1,
           2 * MaxUploadSize}]
UploadServices == {"url", "empty_url", "no_url", "exception"}

\* The result dict of upload, with whether the service was called and
\* whether the call raised instead of returning.
UploadResult(success, url, error, called) ==
  [success |-> success, url |-> url, error |-> error, called |-> called,
   raised |-> FALSE]

\* A bug variant of upload: the size of the file is not looked at.
upload_no_limit(f, svc) ==
  IF ~f.exists
  THEN UploadResult(FALSE, None, "Upload failed: no such file", FALSE)
  ELSE CASE svc = "url" -> UploadResult(TRUE, "https://res.cloudinary.com/video.mp4", None, TRUE)
         [] svc = "exception" -> UploadResult(FALSE, None, "Upload failed: service error", TRUE)
         [] OTHER -> UploadResult(FALSE, None, "Failed to get upload URL", TRUE)

\* cloudinary_uploader.py lines 17-42: os.path.getsize raises for a missing
\* file, inside the try; a file over 100 MB is refused before the service
\* is called; a truthy secure_url is success; a missing or empty one, and
\* any exception, is a failure result.
upload(f, svc) ==
  IF ~f.exists
  THEN UploadResult(FALSE, None, "Upload failed: no such file", FALSE)
  ELSE IF f.size > MaxUploadSize
  THEN UploadResult(FALSE, None, "File too large (max 100MB)", FALSE)
  ELSE CASE svc = "url" -> UploadResult(TRUE, "https://res.cloudinary.com/video.mp4", None, TRUE)
         [] svc = "exception" -> UploadResult(FALSE, None, "Upload failed: service error", TRUE)
         [] OTHER -> UploadResult(FALSE, None, "Failed to get upload URL", TRUE)

\* upload is called with any file and any behaviour of the service.
UploadInit ==
  /\ PipeInit
  /\ resp = NoResponse
  /\ hungAt = [j \in JobIds |-> "none"]
  /\ gate = NoGate
  /\ failed_attempts = 0
  /\ resets = 0
  /\ attempts = 0
  /\ acq = [j \in AcqJobs |-> NoCall]
  /\ loop = 0
  /\ now = 0
  /\ last_attempt_time = 0
  /\ cookies = NoCookies
  /\ ext = NoExtract
  /\ up \in {[by |-> "asked", f |-> f, svc |-> svc] : f \in UploadFiles, svc \in UploadServices}

\* upload returns its result.
UploadCall ==
  /\ up.by = "asked"
  /\ up' = [by |-> "upload", f |-> up.f, svc |-> up.svc, result |-> upload(up.f, up.svc)]
  /\ UNCHANGED <<pipeVars, resp, hungAt, gate, failed_attempts, resets, attempts, acq>>
  /\ UNCHANGED <<loop, now, last_attempt_time, cookies, ext>>

UploadNext == UploadCall

UploadSpec == UploadInit /\ [][UploadNext]_vars

\* The event loop thread is not inside a blocking call.
EventLoopFree == loop = 0

\* Some attempt has failed, so last_attempt_time is the time of a failure
\* and get_ydl_opts can find less than base_delay passed since.
FailureRecorded == \E k \in AcqJobs : acq[k].retry_count > 0

\* A step of download_video with the event loop thread's occupant left to
\* the caller.
Held(A) ==
  /\ A
  /\ UNCHANGED <<tasks, pc, log_data, logs, uploadCalls, released, created, fault, seen>>
  /\ UNCHANGED <<hungAt, gate, now, last_attempt_time, auxVars>>

\* A step the event loop runs for a coroutine: the loop's thread is free
\* before it and after it.
OnLoop(A) ==
  /\ EventLoopFree
  /\ Held(A)
  /\ resp' = NoResponse
  /\ UNCHANGED loop

\* downloader.py lines 332 and 136-139: the coroutine calls get_ydl_opts,
\* which finds less than base_delay passed since the last failure and calls
\* time.sleep: the event loop's thread sleeps in the call.
SleepBegin(j) ==
  /\ EventLoopFree
  /\ acq[j].pc \in {"idle", "backoff"}
  /\ FailureRecorded
  /\ loop' = j
  /\ resp' = NoResponse
  /\ UNCHANGED <<pipeVars, hungAt, gate, failed_attempts, resets, attempts, acq, now,
                 last_attempt_time, auxVars>>

\* downloader.py lines 139 and 332-407: time.sleep returns, get_ydl_opts
\* returns the options and the attempt goes on to the executor.
SleepEnd(j) ==
  /\ loop = j
  /\ Held(AttemptBegin(j))
  /\ loop' = 0
  /\ resp' = NoResponse

\* The download_video calls and the status requests on one event loop.
LoopNext ==
  \/ \E j \in AcqJobs : OnLoop(AttemptBegin(j))
  \/ \E j \in AcqJobs : SleepBegin(j)
  \/ \E j \in AcqJobs : SleepEnd(j)
  \/ \E j \in AcqJobs : OnLoop(EngineReturn(j))
  \/ \E j \in AcqJobs : OnLoop(ValidateReturn(j))
  \/ \E j \in PolledJobs : EventLoopFree /\ ApiGetStatus(j)

LoopSpec == Init /\ [][LoopNext]_vars


\* ================================================================ claims
\* Files of job j that exist on the local disk.
LocalFiles(j) == {p \in {VideoPath(j), ConvertedPath(j)} : files[p] # NoFile}

\* A field of a task entry that holds a non-empty string.
NonEmpty(v) == v # None /\ v # ""

\* The edges of the job state machine.
AllowedEdges ==
  { <<"pending", "downloading">>,
    <<"downloading", "converting">>, <<"downloading", "failed">>,
    <<"converting", "uploading">>,   <<"converting", "failed">>,
    <<"uploading", "completed">>,    <<"uploading", "failed">> }

\* C1: every change of a job's status, in any step of any run (the
\* exception handler included), is one of the allowed edges.
C1_StatusEdges ==
  [][\A j \in DOMAIN tasks :
       tasks'[j].status # tasks[j].status
         => <<tasks[j].status, tasks'[j].status>> \in AllowedEdges]_vars

\* C1 witness: a run ended through the exception handler, another one
\* went through every stage.
C1_Witness ==
  \E j, k \in DOMAIN tasks :
    /\ pc[j] = "done" /\ fault[j] = "download_raised" /\ tasks[j].status = "failed"
    /\ pc[k] = "done" /\ tasks[k].status = "completed"

\* C2: once a job's status is completed or failed, no step changes its
\* status, error or cloudinary_url.
C2_TerminalIsFinal ==
  [][\A j \in DOMAIN tasks :
       tasks[j].status \in Terminal
         => /\ tasks'[j].status = tasks[j].status
            /\ tasks'[j].error = tasks[j].error
            /\ tasks'[j].cloudinary_url = tasks[j].cloudinary_url]_vars

\* C2 witness: a completed job whose cleanup and finally steps have run,
\* and a failed job whose run has ended.
C2_Witness ==
  \E j, k \in DOMAIN tasks :
    /\ pc[j] = "done" /\ tasks[j].status = "completed" /\ released[VideoPath(j)] = 1
    /\ pc[k] = "done" /\ tasks[k].status = "failed" /\ fault[k] = "upload_failed"

C4_FailedClean ==
  \A j \in DOMAIN tasks :
    (pc[j] = "done" /\ tasks[j].status = "failed")
      => /\ NonEmpty(tasks[j].error)
         /\ LocalFiles(j) = {}

\* C5: when a run has ended, every local file it created has been cleaned
\* up exactly once.
C5_CleanupExactlyOnce ==
  \A j \in JobIds :
    pc[j] = "done"
      => \A p \in created \cap {VideoPath(j), ConvertedPath(j)} : released[p] = 1

\* C6: uploader.upload is invoked at most once per job, and never once the
\* job's status is completed or failed.
C6_UploadAtMostOnce ==
  [][\A j \in DOMAIN tasks :
       /\ uploadCalls'[j] <= 1
       /\ tasks[j].status \in Terminal => uploadCalls'[j] = uploadCalls[j]]_vars

\* C6 witness: a job whose publish call failed and whose run has ended
\* with that one call.
C6_Witness ==
  \E j \in DOMAIN tasks :
    pc[j] = "done" /\ fault[j] = "upload_failed" /\ uploadCalls[j] = 1

\* C7: error is set only in status failed, cloudinary_url only in status
\* completed.
C7_FieldsMatchStatus ==
  \A j \in DOMAIN tasks :
    /\ tasks[j].error # None => tasks[j].status = "failed"
    /\ tasks[j].cloudinary_url # None => tasks[j].status = "completed"

\* C7 witness: one job carries an error, another a cloudinary_url, a third
\* state of the table is covered by the jobs still running.
C7_Witness ==
  \E j, k \in DOMAIN tasks :
    /\ tasks[j].error # None
    /\ tasks[k].cloudinary_url # None

\* C8: every job whose run has started eventually is completed or failed.
C8_EventuallyTerminal ==
  \A j \in JobIds :
    (pc[j] = "downloading")
      ~> (j \in DOMAIN tasks /\ tasks[j].status \in Terminal)

\* C9: a stage failure or exception never leaves the run: no run crashes,
\* and a run that ended after a stage failed or raised is failed with a
\* non-empty error.
C9_FaultsBecomeFailed ==
  \A j \in JobIds :
    /\ pc[j] # "crashed"
    /\ (pc[j] = "done" /\ fault[j] # "none")
         => /\ tasks[j].status = "failed"
            /\ NonEmpty(tasks[j].error)

\* C9 witness: one run ended after its acquisition raised, another after
\* its transcode reported failure.
C9_Witness ==
  \E j, k \in JobIds :
    /\ pc[j] = "done" /\ fault[j] = "download_raised"
    /\ pc[k] = "done" /\ fault[k] = "convert_failed"

\* C10: all responses get_task_status gives for a terminal job are the
\* same, whatever happens between the calls.
C10_StatusIdempotent ==
  \A j \in JobIds : Len(seen[j]) = 2 => seen[j][1] = seen[j][2]

\* C10 witness: a job polled twice while terminal, the first time before
\* its run had ended, while another job was submitted and ran to its end.
C10_Witness ==
  \E j, k \in JobIds :
    /\ j # k
    /\ Len(seen[j]) = 2 /\ pc[j] = "done"
    /\ pc[k] = "done"


\* Positions of a run inside the transcode tiers.
TierPcs == {"hevc", "h264", "remux"}

\* Positions of a run in which a stage is being invoked or is running.
StagePcs == {"downloading", "convert", "uploading"} \cup TierPcs

\* C13: the transcode stage starts only in the step in which acquisition
\* returned a file, the publish stage only in the step in which a tier of
\* the transcode returned success, and once a stage failed or raised no
\* stage of that job is invoked or running.
C13_StagesSequential ==
  [][\A j \in JobIds :
       /\ (pc'[j] = "convert" /\ pc[j] # "convert")
            => /\ pc[j] = "downloading"
               /\ files'[VideoPath(j)] # NoFile
               /\ fault'[j] = "none"
       /\ (uploadCalls'[j] # uploadCalls[j] \/ (pc'[j] = "uploading" /\ pc[j] # "uploading"))
            => /\ pc[j] \in TierPcs
               /\ pc'[j] = "uploading"
               /\ files'[ConvertedPath(j)] # NoFile
               /\ fault'[j] = "none"
       /\ (pc'[j] = "downloading" /\ pc[j] # "downloading") => pc[j] = "start"
       /\ fault'[j] # "none"
            => /\ pc'[j] \notin StagePcs
               /\ uploadCalls'[j] = uploadCalls[j]]_vars

\* C13 witness: one run ended after its transcode failed without a publish
\* call, another went through all three stages.
C13_Witness ==
  \E j, k \in JobIds :
    /\ pc[j] = "done" /\ fault[j] = "convert_failed" /\ uploadCalls[j] = 0
    /\ pc[k] = "done" /\ fault[k] = "none" /\ uploadCalls[k] = 1

\* C14: after acquisition and transcode succeeded and publish reported
\* failure, the run ends failed with the publish error, both local files
\* removed and exactly one publish call.
C14_PublishFailure ==
  \A j \in DOMAIN tasks :
    (pc[j] = "done" /\ fault[j] = "upload_failed")
      => /\ tasks[j].status = "failed"
         /\ tasks[j].error \in {"File too large (max 100MB)", "Failed to get upload URL",
                                "Upload failed: service error", "Upload failed: no such file"}
         /\ uploadCalls[j] = 1
         /\ files[VideoPath(j)] = NoFile
         /\ files[ConvertedPath(j)] = NoFile

\* C15: a run whose HEVC tier ran out of time does not stay there: it goes
\* on with the fallback tier and ends, and when no stage failed afterwards
\* it ends completed with no converted output left.
C15_FallbackAfterTimeout ==
  \A j \in JobIds :
    (hungAt[j] = "hevc")
      ~> /\ pc[j] = "done"
         /\ fault[j] = "none"
              => /\ tasks[j].status = "completed"
                 /\ files[ConvertedPath(j)] = NoFile

\* Order of the tiers as convert tries them.
TierRank(p) ==
  CASE p = "hevc" -> 1
    [] p = "h264" -> 2
    [] p = "remux" -> 3
    [] OTHER -> 0

\* Positions of a run after convert returned or stopped returning.
AfterConvertPcs == {"uploading", "cleanup", "except", "finally", "done", "hung"}

\* C19: the tiers are attempted in the order HEVC, H.264, RemuxOnly: a
\* tier starts only in the step in which the tier before it failed (HEVC
\* in the step in which the input was accepted), a tier that succeeded is
\* followed by the publish stage and by no tier, and once convert has
\* returned no tier starts again, so each tier runs at most once per job.
C19_TierOrder ==
  [][\A j \in JobIds :
       /\ (pc'[j] \in TierPcs /\ pc'[j] # pc[j])
            => /\ TierRank(pc'[j]) = TierRank(pc[j]) + 1
               /\ pc[j] \in TierPcs \cup {"convert"}
               /\ uploadCalls'[j] = uploadCalls[j]
               /\ fault'[j] = "none"
       /\ (pc[j] \in TierPcs /\ uploadCalls'[j] # uploadCalls[j]) => pc'[j] = "uploading"
       /\ pc[j] \in AfterConvertPcs => pc'[j] \in AfterConvertPcs]_vars

\* C19 witness: one run reached the RemuxOnly tier after both earlier tiers
\* failed, another was published after a tier succeeded.
C19_Witness ==
  \E j, k \in JobIds :
    /\ pc[j] = "remux" /\ uploadCalls[j] = 0
    /\ pc[k] = "done" /\ fault[k] = "none" /\ uploadCalls[k] = 1

\* C20: whenever convert has returned success, the file it returned is one
\* the gate accepts: it exists with at least the minimum size, is no HTML
\* or error page, has a video stream and a positive duration.
C20_SuccessIsGateValid ==
  \A j \in JobIds :
    pc[j] = "uploading"
      => /\ files[ConvertedPath(j)] # NoFile
         /\ validate_file_with_ffprobe(files, ConvertedPath(j), "ok")
         /\ Contents[files[ConvertedPath(j)]].size >= MinFileSize
         /\ Contents[files[ConvertedPath(j)]].video
         /\ Contents[files[ConvertedPath(j)]].duration > 0

\* C20 witness: one tier left an output the gate rejected and the run went
\* on to the last tier, while another run's tier output was accepted.
C20_Witness ==
  \E j, k \in JobIds :
    /\ pc[j] = "remux" /\ files[ConvertedPath(j)] = "empty"
    /\ pc[k] = "uploading"

\* C11: a get_task_status request changes nothing in the task table; for a
\* known task it returns that task's current status, progress, error and
\* result URL, for an unknown identifier it answers 404 and no entry is
\* created for it.
C11_StatusIsPureRead ==
  [][resp'.op = "get_status"
       => /\ tasks' = tasks
          /\ IF resp'.id \in DOMAIN tasks
             THEN /\ resp'.body.code = 200
                  /\ resp'.body.task_id = resp'.id
                  /\ resp'.body.status = tasks[resp'.id].status
                  /\ resp'.body.progress = tasks[resp'.id].progress
                  /\ resp'.body.error = tasks[resp'.id].error
                  /\ resp'.body.cloudinary_url = tasks[resp'.id].cloudinary_url
             ELSE /\ resp'.body.code = 404
                  /\ resp'.id \notin DOMAIN tasks']_vars

\* C11 witness: an unknown identifier was just polled while another job is
\* in the table and under way; the answer was 404 and the identifier is
\* still unknown.
C11_Witness ==
  /\ resp.op = "get_status"
  /\ resp.body.code = 404
  /\ resp.id \notin DOMAIN tasks
  /\ \E k \in DOMAIN tasks : tasks[k].status = "converting"

\* The step is a submit that answers with identifier j, adds the entry of j
\* in status pending without error or result, leaves all other entries as
\* they were and runs no stage.
FreshSubmit(j) ==
  /\ DOMAIN tasks' = DOMAIN tasks \cup {j}
  /\ tasks'[j].status = "pending"
  /\ tasks'[j].error = None
  /\ tasks'[j].cloudinary_url = None
  /\ \A k \in DOMAIN tasks : tasks'[k] = tasks[k]
  /\ resp'.body.code = 200
  /\ resp'.body.task_id = j
  /\ pc'[j] = "start"
  /\ \A k \in JobIds \ {j} : pc'[k] = pc[k]
  /\ files' = files /\ uploadCalls' = uploadCalls /\ log_data' = log_data

GateFailedThird(j) ==
  /\ Len(acq[j].hist) = 3
  /\ acq[j].hist[1].out # "ok"
  /\ acq[j].hist[2].out # "ok"
  /\ acq[j].hist[3].out = "ok"
  /\ ~validate_file(KindFacts(acq[j].hist[3].file, "ok"))

\* C16: when attempts 1 and 2 of an acquisition fail in a way that is
\* retried and attempt 3 is reported successful by the fetch engine with a
\* file the validation gate rejects, the acquisition ends in failure: it
\* returns no file (so that no transcode can start) and leaves none behind.
C16_GateFailedSuccessFails ==
  \A j \in AcqJobs :
    (GateFailedThird(j) /\ acq[j].pc \in {"returned", "raised"})
      => /\ acq[j].pc = "raised"
         /\ files[VideoPath(j)] = NoFile

\* Job 1 has made its first attempt and it failed in a way that is retried,
\* job 2 has made its second attempt (its first failed the same way), and
\* the two calls overlap: each began before the last attempt of the other.
BothBackedOff ==
  /\ Len(acq[1].hist) >= 1
  /\ acq[1].hist[1].out = "http_429"
  /\ Len(acq[2].tried) >= 2
  /\ acq[1].tried[1].seq < acq[2].tried[Len(acq[2].tried)].seq
  /\ acq[2].tried[1].seq < acq[1].tried[Len(acq[1].tried)].seq

FourChecks(f) ==
  /\ f.exists /\ f.size > MinFileSize
  /\ f.header = "read" /\ ~f.html
  /\ f.probe = "ok" /\ f.video
  /\ f.duration > 0

\* C18: a validation accepts a file exactly if the file exists with a size
\* above the minimum, its header can be read and shows no HTML or error
\* signature, the probe runs and reports a video stream, and the duration
\* is positive.
C18_GateIffFourChecks ==
  gate.verdict # "none" => (gate.verdict = "accepted" <=> FourChecks(gate.f))

C30_SingleWriter ==
  [][\A j \in JobIds : \A k \in DOMAIN tasks :
       (pc'[j] # pc[j] /\ k # j) =>
         (k \in DOMAIN tasks' /\ tasks'[k] = tasks[k])]_vars

\* C30 witness: two runs have interleaved and each entry carries its own
\* run's outcome, one completed and one failed by the exception handler.
C30_Witness ==
  \E j, k \in JobIds :
    /\ j # k /\ {j, k} \subseteq DOMAIN tasks
    /\ tasks[j].status = "completed" /\ tasks[j].error = None
    /\ tasks[k].status = "failed" /\ tasks[k].error = "Unexpected error: fault"
    /\ tasks[k].cloudinary_url = None

\* C21: a tier that exceeds its time is a failure of that tier only: for
\* each of the tiers, a run whose tier does not finish leaves that tier, so
\* that the next tier of the chain (or, after the last tier, the failure
\* return) is reached.
C21_TierTimeoutFailsTierOnly ==
  \A j \in JobIds : \A t \in TierPcs :
    (hungAt[j] = t) ~> (pc[j] # "hung")

\* The failures that _download re-raises as DownloadError with the remark
\* "will retry" (downloader.py lines 383-386 and 394-396), by message.
MarkedRetryable == {"Rate limited", "Format not available"}

\* Attempt number i of call j was followed by a further attempt, or one is
\* pending behind the wait.
FurtherAttempt(j, i) == Len(acq[j].tried) > i \/ acq[j].pc = "backoff"

\* Attempt number i of call j was the last one and its error was raised.
StoppedAt(j, i) == Len(acq[j].tried) = i /\ acq[j].pc = "raised"

\* C23: a Fatal failure of an attempt stops the iteration at once, no
\* further attempt is made and the error is raised; a failure marked
\* Retryable is followed by a further attempt whenever the attempt was not
\* the last of the budget.
C23_FatalStopsRetryableContinues ==
  \A j \in AcqJobs : \A i \in 1..Len(acq[j].hist) :
    LET h == acq[j].hist[i]
        msg == ErrorMsg(h.out, i - 1) IN
    h.out \in EngineErrors =>
      /\ (msg \in MarkedRetryable /\ i < max_retries) => FurtherAttempt(j, i)
      /\ (msg \notin MarkedRetryable) => StoppedAt(j, i)

\* Engine failures by the class the claim gives them.
RetryableSignals == {"timeout", "http_429", "format"}
FatalSignals == {"private", "removed", "http_404"}

\* C24: a timeout, an HTTP 429 and a "requested format is not available"
\* error are each followed by the next attempt when the budget allows; a
\* private, removed or not-found signal is followed by no attempt.
C24_SignalClasses ==
  \A j \in AcqJobs : \A i \in 1..Len(acq[j].hist) :
    LET out == acq[j].hist[i].out IN
    /\ (out \in RetryableSignals /\ i < max_retries) => FurtherAttempt(j, i)
    /\ (out \in FatalSignals) => StoppedAt(j, i)

\* C25: an attempt in which the engine reported success and the file was
\* missing, empty or rejected by the probe is not returned as success, and
\* the next attempt is made when the budget allows.
C25_InvalidFileIsRetried ==
  \A j \in AcqJobs : \A i \in 1..Len(acq[j].hist) :
    (acq[j].hist[i].out = "ok" /\ acq[j].retry_count >= i) =>
      /\ acq[j].pc # "returned" \/ Len(acq[j].tried) > i
      /\ i < max_retries => FurtherAttempt(j, i)

\* C26: no call begins more than max_retries attempts, a call that returned
\* has its file, and every call that was made ends, returning or raising.
C26_BoundedAttemptsThenEnd ==
  /\ [](\A j \in AcqJobs :
         /\ Len(acq[j].tried) <= max_retries
         /\ acq[j].pc = "returned" => files[VideoPath(j)] # NoFile)
  /\ \A j \in AcqJobs :
       (acq[j].pc # "idle") ~> (acq[j].pc \in {"returned", "raised"})

\* C26 witness: one call ended after using the whole budget on rate-limited
\* attempts while the other returned a file.
C26_Witness ==
  \E j, k \in AcqJobs :
    /\ acq[j].pc = "raised" /\ Len(acq[j].tried) = max_retries
    /\ \A i \in 1..max_retries : acq[j].hist[i].out = "http_429"
    /\ acq[k].pc = "returned"

\* Sum of the failed attempts of the calls since the most recent success.
RECURSIVE FailedSince(_)
FailedSince(S) ==
  IF S = {} THEN 0
  ELSE LET j == CHOOSE x \in S : TRUE IN acq[j].since + FailedSince(S \ {j})

\* C28: the shared failure counter is never negative and equals the number
\* of failed attempts, of all calls, since the most recent successful
\* attempt of any call.
C28_CounterCountsFailures ==
  /\ failed_attempts >= 0
  /\ failed_attempts = FailedSince(AcqJobs)

\* C28 witness: a success of one call reset the counter after the other
\* call's first failure, and that call's two later failures are counted.
C28_Witness ==
  /\ resets = 1
  /\ failed_attempts = 2
  /\ \E j \in AcqJobs : acq[j].since = 2 /\ acq[j].retry_count = max_retries

\* C27: with k consecutive failures counted, no attempt begins earlier than
\* 5 + 10 * k seconds after the last recorded failure, and that minimum
\* delay does not decrease as the count grows.
C27_DelayFloor ==
  attempts > 0 =>
    /\ now - last_attempt_time >= 5 + 10 * failed_attempts
    /\ \A k \in 0..failed_attempts :
         /\ base_delay(k) <= base_delay(failed_attempts)
         /\ sleep_time(k, 0) <= sleep_time(failed_attempts, 0)

\* C27 witness: with three failures counted, an attempt began exactly 35
\* seconds after the last recorded failure.
C27_Witness ==
  /\ attempts = 1
  /\ failed_attempts = 3
  /\ last_attempt_time = MaxElapsed
  /\ now - last_attempt_time = 35

\* Call j is waiting out a backoff delay: the asyncio.sleep after a retried
\* failure, or the failure-count-driven sleep of get_ydl_opts.
InBackoffWait(j) == acq[j].pc = "backoff" \/ loop = j

\* C29: every backoff delay is a suspension point: while a call waits out
\* a backoff delay the event loop is free to run the other calls' steps and
\* the status requests.
C29_BackoffYields ==
  \A j \in AcqJobs : InBackoffWait(j) => EventLoopFree

\* C31: transfer, then release: the acquired file of a job changes only
\* while acquisition writes it and in the cleanup after the publish call
\* returned, the converted file only while a tier writes it and in that
\* cleanup; the transcode stage and each tier start with the acquired file
\* on disk, and the publish stage starts with the converted file on disk.
C31_TransferThenRelease ==
  [][\A j \in JobIds :
       /\ files'[VideoPath(j)] # files[VideoPath(j)]
            => pc[j] \in {"downloading", "cleanup"}
       /\ files'[ConvertedPath(j)] # files[ConvertedPath(j)]
            => pc[j] \in TierPcs \cup {"cleanup"}
       /\ (pc'[j] # pc[j] /\ pc'[j] \in {"convert"} \cup TierPcs)
            => files'[VideoPath(j)] # NoFile
       /\ (pc'[j] # pc[j] /\ pc'[j] = "uploading")
            => files'[ConvertedPath(j)] # NoFile]_vars

\* C31 witness: one run has released both files after its publish call
\* returned while another is in the publish call with both files on disk.
C31_Witness ==
  \E j, k \in JobIds :
    /\ j # k
    /\ pc[j] = "done" /\ released[VideoPath(j)] = 1 /\ released[ConvertedPath(j)] = 1
    /\ files[VideoPath(j)] = NoFile /\ files[ConvertedPath(j)] = NoFile
    /\ pc[k] = "uploading"
    /\ files[VideoPath(k)] # NoFile /\ files[ConvertedPath(k)] # NoFile

\* s is an initial part of t.
IsPrefix(s, t) == Len(s) <= Len(t) /\ \A i \in 1..Len(s) : s[i] = t[i]

\* The step records of a run that meets no failure, in the order of its
\* stage transitions, and the records of a failed end.
StepOrder ==
  <<"download_start", "download_success", "convert_start", "convert_success",
    "upload_start", "upload_success">>
FailureRecords == {"download_failed", "convert_failed", "upload_failed", "unexpected_error"}

\* The records follow the stage transitions, with at most one record of a
\* failure, at the end.
InStepOrder(l) ==
  \/ IsPrefix(l, StepOrder)
  \/ /\ Len(l) > 0
     /\ l[Len(l)] \in FailureRecords
     /\ IsPrefix(SubSeq(l, 1, Len(l) - 1), StepOrder)

GateCanAccept(fs, path) ==
  \E probe \in ProbeOutcomes : validate_file_with_ffprobe(fs, path, probe)

\* C36: when the gate rejects the input of convert, convert returns
\* "Input file is not a valid video", which fails the job, with no tier
\* attempted and no output file created; a tier is started only for an
\* input the gate can accept.
C36_InvalidInputNoTier ==
  [][\A j \in JobIds :
       (pc[j] = "convert" /\ pc'[j] \notin {"convert", "hung"}) =>
         /\ pc'[j] \in {"hevc", "finally"}
         /\ pc'[j] = "hevc" => GateCanAccept(files, VideoPath(j))
         /\ ~GateCanAccept(files, VideoPath(j)) => pc'[j] = "finally"
         /\ pc'[j] = "finally" =>
              /\ tasks'[j].status = "failed"
              /\ tasks'[j].error = "Input file is not a valid video"
              /\ fault'[j] = "convert_failed"
              /\ files' = files
              /\ files'[ConvertedPath(j)] = NoFile
              /\ ConvertedPath(j) \notin created'
              /\ uploadCalls'[j] = 0]_vars

\* C36 witness: a run ended failed on an input the gate cannot accept, with
\* no converted file ever created, while another run is in a tier.
C36_Witness ==
  \E j, k \in JobIds :
    /\ j # k
    /\ pc[j] = "done" /\ tasks[j].error = "Input file is not a valid video"
    /\ ~GateCanAccept(files, VideoPath(j))
    /\ ConvertedPath(j) \notin created
    /\ pc[k] \in TierPcs

\* C37: upload never raises; for a file over 100 MB it returns the failure
\* "File too large" and the service is not called; when the service
\* raises or returns no URL it returns a failure; and it returns success
\* only with a non-empty URL, from the service.
C37_UploadResults ==
  up.by = "upload" =>
    LET r == up.result IN
    /\ ~r.raised
    /\ (up.f.exists /\ up.f.size > MaxUploadSize)
         => (~r.success /\ r.error = "File too large (max 100MB)" /\ ~r.called)
    /\ (up.svc # "url") => ~r.success
    /\ r.success => (r.called /\ r.url # None /\ r.url # "")
    /\ ~r.success => (r.url = None /\ r.error # None /\ r.error # "")

\* C37 witness: upload refused a file of one byte over the limit without
\* calling a service that would have returned a URL.
C37_Witness ==
  /\ up.by = "upload"
  /\ up.f.exists /\ up.f.size = MaxUploadSize + 1
  /\ up.svc = "url"
  /\ ~up.result.success /\ ~up.result.called

AttemptError(h, n) ==
  IF h.out \in EngineErrors THEN ErrorMsg(h.out, n)
  ELSE IF h.file = NoFile THEN "Download completed but no file was created"
  ELSE IF Contents[h.file].size = 0 THEN "Downloaded file is empty"
  ELSE "Downloaded file is not a valid video file"

\* C35: the retry loops of download_video and extract_info end by
\* returning the result of a successful attempt, or by raising the error of
\* the last attempt made; "Max retries exceeded" is never raised.
C35_LoopExits ==
  /\ \A j \in AcqJobs :
       /\ acq[j].pc = "raised" =>
            /\ acq[j].error # "Max retries exceeded"
            /\ Len(acq[j].hist) = Len(acq[j].tried)
            /\ acq[j].error = AttemptError(acq[j].hist[Len(acq[j].hist)],
                                            Len(acq[j].hist) - 1)
       /\ acq[j].pc = "returned" =>
            /\ acq[j].error = None
            /\ Len(acq[j].hist) = Len(acq[j].tried)
            /\ acq[j].hist[Len(acq[j].hist)].out = "ok"
  /\ ext.pc = "raised" =>
       /\ ext.error # "Max retries exceeded"
       /\ ext.error = ExtractMsg(ext.hist[Len(ext.hist)])
  /\ ext.pc = "returned" =>
       /\ ext.error = None
       /\ ext.hist[Len(ext.hist)] = "ok"

\* C35 witness: the download_video call and the extract_info call both used
\* their whole budget on retried failures and raised the last one.
C35_Witness ==
  /\ \E j \in AcqJobs :
       /\ acq[j].pc = "raised" /\ acq[j].retry_count = max_retries
       /\ acq[j].error = "Rate limited"
  /\ ext.pc = "raised" /\ ext.retry_count = max_retries
  /\ ext.hist = <<"http_429", "bot_check", "bot_check">>

\* C32: the credential file a download_video call was given no longer
\* exists on disk once the call has returned or raised.
C32_CredentialRemoved ==
  \A j \in AcqJobs :
    (j \in cookies.used /\ acq[j].pc \in {"returned", "raised"}) => ~cookies.file

====
